---- MODULE Spec2Model ----
(***************************************************************************)
(* Model of shade/_normalize.py: the resource normalizers (flavor, image,  *)
(* security group, security-group rule, server, floating IP) applied to a  *)
(* raw record that callers share, and of the list helpers of               *)
(* shade/_utils.py (parse_range, safe_dict_min, safe_dict_max,             *)
(* range_filter, _filter_list), each applied once to drawn inputs.         *)
(*                                                                         *)
(* Python values are tagged tuples so that values of different Python      *)
(* types can live in one mapping: <<"none">>, <<"bool", b>>, <<"int", n>>, *)
(* <<"float", n>>, <<"str", s>>, <<"map", f>>, <<"list", seq>>,            *)
(* <<"tuple", seq>>.  A dict is a TLA+ function from its keys to values.   *)
(***************************************************************************)
EXTENDS Integers, Sequences, FiniteSets, TLC

VARIABLES kind, strict_mode, use_neutron, orig, raw, outs, who,
          utils_call, utils_ret

vars == <<kind, strict_mode, use_neutron, orig, raw, outs, who,
          utils_call, utils_ret>>

\* Bound: how many normalization calls are made on the shared record.
MaxCalls == 2

\* The callers that share the raw-record cache.
Callers == {"c1", "c2"}

-----------------------------------------------------------------------------
(* Python values *)

None == <<"none">>
B(b) == <<"bool", b>>
I(n) == <<"int", n>>
F(n) == <<"float", n>>
S(s) == <<"str", s>>
M(f) == <<"map", f>>
L(q) == <<"list", q>>
T(q) == <<"tuple", q>>

Tag(v) == v[1]

EmptyMap == [k \in {} |-> None]

IsBool(v) == Tag(v) = "bool"
IsInt(v) == Tag(v) = "int"
IsStr(v) == Tag(v) = "str"
IsMap(v) == Tag(v) = "map"

\* bool(value): Python truthiness.
Truthy(v) ==
    CASE Tag(v) = "none" -> FALSE
      [] Tag(v) = "bool" -> v[2]
      [] Tag(v) = "int" -> v[2] # 0
      [] Tag(v) = "float" -> v[2] # 0
      [] Tag(v) = "str" -> v[2] # ""
      [] Tag(v) = "map" -> DOMAIN v[2] # {}
      [] Tag(v) = "list" -> Len(v[2]) > 0
      [] Tag(v) = "tuple" -> Len(v[2]) > 0

\* str.lower() on the strings of the model.
Lower(s) ==
    CASE s \in {"true", "True", "TRUE"} -> "true"
      [] s \in {"false", "False"} -> "false"
      [] OTHER -> s

\* str.capitalize() on lower-case strings of the model.
Capitalize(s) ==
    CASE s = "true" -> "True"
      [] s = "false" -> "False"
      [] s = "yes" -> "Yes"
      [] OTHER -> s

\* The decimal strings of the model and the integers int() reads from them.
NumStrings == {"-1", "0", "22", "80", "512"}

StrToInt(s) ==
    CASE s = "-1" -> -1
      [] s = "0" -> 0
      [] s = "22" -> 22
      [] s = "80" -> 80
      [] s = "512" -> 512

\* int(value) succeeds.
CanInt(v) ==
    \/ Tag(v) \in {"int", "bool", "float"}
    \/ Tag(v) = "str" /\ v[2] \in NumStrings

\* int(value), where it succeeds.
IntOf(v) ==
    CASE Tag(v) = "int" -> v[2]
      [] Tag(v) = "float" -> v[2]
      [] Tag(v) = "bool" -> IF v[2] THEN 1 ELSE 0
      [] Tag(v) = "str" -> StrToInt(v[2])

\* value == n for a Python int n.
EqInt(v, n) ==
    \/ Tag(v) \in {"int", "float"} /\ v[2] = n
    \/ Tag(v) = "bool" /\ (IF v[2] THEN 1 ELSE 0) = n

-----------------------------------------------------------------------------
(* dict operations *)

Has(d, k) == k \in DOMAIN d

\* d.get(k, default)
Get(d, k, default) == IF Has(d, k) THEN d[k] ELSE default

\* d after d.pop(k, ...)
Pop(d, k) == [x \in DOMAIN d \ {k} |-> d[x]]

\* d after popping every key of ks
PopAll(d, ks) == [x \in DOMAIN d \ ks |-> d[x]]

\* d after d[k] = v
Put(d, k, v) == [x \in DOMAIN d \cup {k} |-> IF x = k THEN v ELSE d[x]]

\* d after d.setdefault(k, v) for every (k, v) of p
SetDefaults(d, p) ==
    [x \in DOMAIN d \cup DOMAIN p |-> IF x \in DOMAIN d THEN d[x] ELSE p[x]]

\* d after d[k] = v for every (k, v) of p
Update(d, p) ==
    [x \in DOMAIN d \cup DOMAIN p |-> IF x \in DOMAIN p THEN p[x] ELSE d[x]]

-----------------------------------------------------------------------------
(* module-level helpers of _normalize.py *)

ToBool(value) ==
    IF IsStr(value)
    THEN IF value[2] = ""
         THEN FALSE
         ELSE Capitalize(Lower(value[2])) = "True"
    ELSE Truthy(value)

\* resource.pop(key, 0) or 0
OrZero(resource, key) ==
    LET v == Get(resource, key, I(0))
    IN IF Truthy(v) THEN v ELSE I(0)

\* _pop_int raises (ValueError / TypeError)
PopIntFails(resource, key) == ~CanInt(OrZero(resource, key))

PopInt(resource, key) == I(IntOf(OrZero(resource, key)))

PopFloat(resource, key) == F(IntOf(OrZero(resource, key)))

\* the value _pop_or_get returns
PopOrGet(resource, key, default, strict) == Get(resource, key, default)

\* the resource after _pop_or_get
PopOrGetRest(resource, key, default, strict) ==
    IF strict THEN Pop(resource, key) ELSE resource

-----------------------------------------------------------------------------
(* ambient context of the Normalizer mix-in *)

RegionName == "RegionOne"
CloudName == "mycloud"
CurrentProject == "ctx-project"

\* self._get_current_location(project_id=..., zone=...): the cloud and the
\* region are those of the client, the zone is the one handed in, the
\* project is the one handed in or else the client's current project.
GetCurrentLocation(project_id, zone) ==
    M([cloud |-> S(CloudName),
       region_name |-> S(RegionName),
       zone |-> zone,
       project |-> IF Truthy(project_id) THEN project_id ELSE S(CurrentProject)])

\* self.current_location
CurrentLocation == GetCurrentLocation(None, None)

\* What a normalizer call leaves behind: the exception it raised ("" for
\* none), the record it returned and the caller's record after the call.
Raised(e, after) == [err |-> e, ret |-> EmptyMap, raw |-> after]
Returned(r, after) == [err |-> "", ret |-> r, raw |-> after]

\* project_id = r.pop('tenant_id', ''); project_id = r.pop('project_id', project_id)
ProjectIdOf(r) == Get(r, "project_id", Get(r, "tenant_id", S("")))

-----------------------------------------------------------------------------
(* _normalize_secgroup_rule *)

RuleClaimed ==
    {"id", "direction", "ethertype", "from_port", "port_range_max", "to_port",
     "protocol", "ip_protocol", "remote_ip_prefix", "ip_range",
     "security_group_id", "parent_group_id", "remote_group_id",
     "tenant_id", "project_id"}

\* port_range_min as read and canonicalised by lines 245-250
RulePortMinRaw(rule) == Get(rule, "port_range_min", Get(rule, "from_port", None))

RulePortMinFails(rule) ==
    LET v == RulePortMinRaw(rule)
    IN ~EqInt(v, -1) /\ v # None /\ ~CanInt(v)

RulePortMin(rule) ==
    LET v == RulePortMinRaw(rule)
    IN IF EqInt(v, -1) \/ v = None THEN None ELSE I(IntOf(v))

\* port_range_max as read and canonicalised by lines 252-258: -1 becomes
\* None; the int() of lines 256-257 is applied to port_range_min a second
\* time, so the upper bound is stored as it was read
RulePortMax(rule) ==
    LET v == Get(rule, "port_range_max", Get(rule, "to_port", None))
    IN IF EqInt(v, -1) THEN None ELSE v

\* rule.pop('ip_range', {}).get('cidr', None) raises on a non-mapping
RuleIpRangeFails(rule) == Has(rule, "ip_range") /\ ~IsMap(rule["ip_range"])

RuleRemoteIpPrefix(rule) ==
    Get(rule, "remote_ip_prefix",
        IF Has(rule, "ip_range") THEN Get(rule["ip_range"][2], "cidr", None)
        ELSE None)

\* the rule dict left over when ret['properties'] = rule is executed
RuleProperties(rule) == PopAll(rule, RuleClaimed)

\* the "Backwards compat with Neutron" block
RuleBackCompat(ret, project_id) ==
    IF ~strict_mode
    THEN SetDefaults(Put(Put(ret, "tenant_id", project_id),
                         "project_id", project_id),
                     ret["properties"][2])
    ELSE ret

\* ret as built by lines 242-268, before the backwards-compat block
RuleRet(rule) ==
               [id |-> rule["id"],
                direction |-> Get(rule, "direction", S("ingress")),
                ethertype |-> Get(rule, "ethertype", S("IPv4")),
                port_range_min |-> RulePortMin(rule),
                port_range_max |-> RulePortMax(rule),
                protocol |-> Get(rule, "protocol", Get(rule, "ip_protocol", None)),
                remote_ip_prefix |-> RuleRemoteIpPrefix(rule),
                security_group_id |->
                    Get(rule, "security_group_id",
                        Get(rule, "parent_group_id", None)),
                remote_group_id |-> Get(rule, "remote_group_id", None),
                location |-> GetCurrentLocation(ProjectIdOf(rule), None),
                properties |-> M(RuleProperties(rule))]

NormalizeSecgroupRule(rule) ==
    IF ~Has(rule, "id") THEN Raised("KeyError: 'id'", rule)
    ELSE IF RulePortMinFails(rule) THEN Raised("ValueError", rule)
    ELSE IF RuleIpRangeFails(rule) THEN Raised("AttributeError", rule)
    ELSE Returned(RuleBackCompat(RuleRet(rule), ProjectIdOf(rule)), rule)

\* _normalize_secgroup_rules: every rule in turn; the first exception ends it
RulesError(rules) ==
    IF \E i \in 1..Len(rules) : NormalizeSecgroupRule(rules[i][2]).err # ""
    THEN LET i == CHOOSE j \in 1..Len(rules) :
                    /\ NormalizeSecgroupRule(rules[j][2]).err # ""
                    /\ \A h \in 1..(j - 1) :
                           NormalizeSecgroupRule(rules[h][2]).err = ""
         IN NormalizeSecgroupRule(rules[i][2]).err
    ELSE ""

NormalizeSecgroupRules(rules) ==
    L([i \in 1..Len(rules) |-> M(NormalizeSecgroupRule(rules[i][2]).ret)])

-----------------------------------------------------------------------------
(* _normalize_flavor *)

Noise == {"links", "NAME_ATTR", "HUMAN_ID", "human_id"}

\* the flavor dict left over when new_flavor['properties'] = flavor.copy()
FlavorProperties(flavor) ==
    LET f1 == PopAll(flavor, Noise)
        f2 == PopOrGetRest(f1, "OS-FLV-EXT-DATA:ephemeral", I(0), strict_mode)
        f3 == PopOrGetRest(f2, "os-flavor-access:is_public", B(TRUE), strict_mode)
        f4 == PopOrGetRest(f3, "OS-FLV-DISABLED:disabled", B(FALSE), strict_mode)
    IN PopAll(f4, {"ephemeral", "is_public", "extra_specs", "id", "name",
                   "ram", "vcpus", "disk", "swap", "rxtx_factor"})

FlavorEphemeral(flavor) ==
    Get(flavor, "ephemeral",
        I(IntOf(PopOrGet(flavor, "OS-FLV-EXT-DATA:ephemeral", I(0), strict_mode))))

FlavorIsPublic(flavor) ==
    ToBool(Get(flavor, "is_public",
               B(ToBool(PopOrGet(flavor, "os-flavor-access:is_public",
                                 B(TRUE), strict_mode)))))

FlavorIsDisabled(flavor) ==
    ToBool(PopOrGet(flavor, "OS-FLV-DISABLED:disabled", B(FALSE), strict_mode))

\* the passthrough block run without looking at strict_mode
FlavorBackCompatAlways(new_flavor) ==
    SetDefaults(new_flavor, new_flavor["properties"][2])

\* "Backwards compat with nova - passthrough values"
FlavorBackCompat(new_flavor) ==
    IF ~strict_mode
    THEN SetDefaults(new_flavor, new_flavor["properties"][2])
    ELSE new_flavor

\* new_flavor as built by lines 117-130, before the passthrough block
NewFlavor(flavor) ==
            [location |-> CurrentLocation,
             id |-> flavor["id"],
             name |-> flavor["name"],
             is_public |-> B(FlavorIsPublic(flavor)),
             is_disabled |-> B(FlavorIsDisabled(flavor)),
             ram |-> PopInt(flavor, "ram"),
             vcpus |-> PopInt(flavor, "vcpus"),
             disk |-> PopInt(flavor, "disk"),
             ephemeral |-> FlavorEphemeral(flavor),
             swap |-> PopInt(flavor, "swap"),
             rxtx_factor |-> PopFloat(flavor, "rxtx_factor"),
             properties |-> M(FlavorProperties(flavor)),
             extra_specs |-> Get(flavor, "extra_specs", M(EmptyMap))]

NormalizeFlavor(flavor) ==
    IF ~CanInt(PopOrGet(flavor, "OS-FLV-EXT-DATA:ephemeral", I(0), strict_mode))
    THEN Raised("ValueError", flavor)
    ELSE IF ~Has(flavor, "id") THEN Raised("KeyError: 'id'", flavor)
    ELSE IF ~Has(flavor, "name") THEN Raised("KeyError: 'name'", flavor)
    ELSE IF \E k \in {"ram", "vcpus", "disk", "swap", "rxtx_factor"} :
                PopIntFails(flavor, k)
    THEN Raised("ValueError", flavor)
    ELSE Returned(FlavorBackCompat(NewFlavor(flavor)), flavor)

-----------------------------------------------------------------------------
(* _normalize_image *)

IMAGE_FIELDS ==
    {"checksum", "container_format", "created_at", "direct_url",
     "disk_format", "file", "id", "min_disk", "min_ram", "name", "owner",
     "size", "status", "tags", "updated_at", "virtual_size"}

ImageIntFields == {"min_ram", "min_disk", "size", "virtual_size"}

\* visibility as popped from the image (line 150)
ImageRawVisibility(image) == Get(image, "visibility", None)

\* is_public of lines 153-157
ImageIsPublic(image) ==
    IF Truthy(ImageRawVisibility(image))
    THEN B(ImageRawVisibility(image) = S("public"))
    ELSE Get(image, "is_public", B(FALSE))

\* visibility of lines 153-157
ImageVisibility(image) ==
    IF Truthy(ImageRawVisibility(image))
    THEN ImageRawVisibility(image)
    ELSE IF Truthy(ImageIsPublic(image)) THEN S("public") ELSE S("private")

\* the keys popped from the image up to and including the _IMAGE_FIELDS loop
ImagePoppedEarly(image) ==
    {"properties", "visibility", "protected"}
        \cup (IF Truthy(ImageRawVisibility(image)) THEN {} ELSE {"is_public"})
        \cup IMAGE_FIELDS

\* the image dict at "for key, val in image.items()"
ImageRest(image) == PopAll(image, ImagePoppedEarly(image) \cup {"locations"})

\* properties after the setdefault loop of lines 166-167
ImageProperties(image) ==
    SetDefaults(Get(image, "properties", M(EmptyMap))[2], ImageRest(image))

\* "Backwards compat with glance"
ImageBackCompat(new_image, properties, protected) ==
    IF ~strict_mode
    THEN Put(Update(new_image, properties), "protected", protected)
    ELSE new_image

ImageProtected(image) == B(ToBool(Get(image, "protected", B(FALSE))))

\* new_image as built by lines 146-170, before the backwards-compat block
NewImage(image) ==
    LET fields == [f \in IMAGE_FIELDS |->
                     IF f \in ImageIntFields THEN PopInt(image, f)
                     ELSE Get(image, f, None)]
    IN Update(fields,
              [location |-> GetCurrentLocation(Get(image, "owner", None), None),
               is_protected |-> ImageProtected(image),
               locations |-> Get(image, "locations", L(<<>>)),
               properties |-> M(ImageProperties(image)),
               visibility |-> ImageVisibility(image),
               is_public |-> ImageIsPublic(image)])

NormalizeImage(image) ==
    IF \E f \in ImageIntFields : PopIntFails(image, f)
    THEN Raised("ValueError", PopAll(image, ImagePoppedEarly(image)))
    ELSE Returned(ImageBackCompat(NewImage(image), ImageProperties(image),
                                  ImageProtected(image)),
                  ImageRest(image))

-----------------------------------------------------------------------------
(* _normalize_secgroup *)

\* group.pop('security_group_rules', group.pop('rules', []))
GroupRawRules(group) ==
    Get(group, "security_group_rules", Get(group, "rules", L(<<>>)))[2]

GroupProperties(group) ==
    PopAll(group, {"security_group_rules", "rules", "tenant_id", "project_id",
                   "id", "name", "description"})

\* "Backwards compat with Neutron"
GroupBackCompat(ret, project_id) ==
    IF ~strict_mode
    THEN SetDefaults(Put(Put(ret, "tenant_id", project_id),
                         "project_id", project_id),
                     ret["properties"][2])
    ELSE ret

\* ret as built by lines 206-211, before the backwards-compat block
GroupRet(group) ==
    [location |-> GetCurrentLocation(ProjectIdOf(group), None),
     id |-> group["id"],
     name |-> group["name"],
     security_group_rules |-> NormalizeSecgroupRules(GroupRawRules(group)),
     description |-> group["description"],
     properties |-> M(GroupProperties(group))]

NormalizeSecgroup(group) ==
    IF RulesError(GroupRawRules(group)) # ""
    THEN Raised(RulesError(GroupRawRules(group)), group)
    ELSE IF ~Has(group, "id") THEN Raised("KeyError: 'id'", group)
    ELSE IF ~Has(group, "name") THEN Raised("KeyError: 'name'", group)
    ELSE IF ~Has(group, "description")
    THEN Raised("KeyError: 'description'", group)
    ELSE Returned(GroupBackCompat(GroupRet(group), ProjectIdOf(group)), group)

-----------------------------------------------------------------------------
(* _normalize_server *)

SERVER_FIELDS ==
    {"accessIPv4", "accessIPv6", "addresses", "adminPass", "created",
     "key_name", "metadata", "networks", "private_v4", "public_v4",
     "public_v6", "security_groups", "status", "updated", "user_id"}

\* the vendor-extension keys of the loop of lines 332-339 and their short keys
ServerExtKeys ==
    {"OS-EXT-STS:power_state", "OS-EXT-STS:task_state", "OS-EXT-STS:vm_state",
     "OS-SRV-USG:launched_at", "OS-SRV-USG:terminated_at"}

\* key.split(':')[1]
ShortKey(key) ==
    CASE key = "OS-EXT-STS:power_state" -> "power_state"
      [] key = "OS-EXT-STS:task_state" -> "task_state"
      [] key = "OS-EXT-STS:vm_state" -> "vm_state"
      [] key = "OS-SRV-USG:launched_at" -> "launched_at"
      [] key = "OS-SRV-USG:terminated_at" -> "terminated_at"

ServerShortKeys == {ShortKey(k) : k \in ServerExtKeys}

LongKey(short) == CHOOSE k \in ServerExtKeys : ShortKey(k) = short

\* a nested mapping after .pop('links', None); a string is left alone
\* (str(server['image']) != server['image'])
StripLinks(v) == IF IsMap(v) THEN M(Pop(v[2], "links")) ELSE v

\* the caller's record once server['flavor'].pop('links', None) has run on
\* the nested mapping that the shallow copy shares with it
ServerAfterFlavor(server) == Put(server, "flavor", StripLinks(server["flavor"]))

\* ... and once server['image'].pop('links', None) has run as well
ServerAfterImage(server) ==
    Put(ServerAfterFlavor(server), "image", StripLinks(server["image"]))

\* the server dict left over when ret['properties'] = server.copy()
ServerProperties(server) ==
    LET s1 == PopAll(server, Noise \cup {"id", "name", "flavor", "image",
                                          "tenant_id", "project_id",
                                          "config_drive", "hostId", "progress"}
                              \cup SERVER_FIELDS)
        s2 == IF strict_mode
              THEN PopAll(s1, {"OS-EXT-AZ:availability_zone",
                               "os-extended-volumes:volumes_attached",
                               "OS-DCF:diskConfig"} \cup ServerExtKeys)
              ELSE s1
    IN s2

\* "Backwards compat"
ServerBackCompat(ret, host_id, config_drive, project_id, az) ==
    IF ~strict_mode
    THEN SetDefaults(
             Update(ret, [hostId |-> host_id,
                          config_drive |-> config_drive,
                          project_id |-> project_id,
                          tenant_id |-> project_id,
                          region |-> S(RegionName),
                          cloud |-> S(CloudName),
                          az |-> az]),
             ret["properties"][2])
    ELSE ret

ServerAz(server) ==
    PopOrGet(server, "OS-EXT-AZ:availability_zone", None, strict_mode)

\* ret as built by lines 296-345, before the backwards-compat block
ServerRet(server) ==
    LET short == [k \in ServerShortKeys |->
                    PopOrGet(server, LongKey(k), None, strict_mode)]
        fields == [f \in SERVER_FIELDS |-> Get(server, f, None)]
    IN Update(Update(short, fields),
              [id |-> server["id"],
               name |-> server["name"],
               flavor |-> StripLinks(server["flavor"]),
               image |-> StripLinks(server["image"]),
               location |-> GetCurrentLocation(ProjectIdOf(server),
                                               ServerAz(server)),
               volumes |-> PopOrGet(server,
                               "os-extended-volumes:volumes_attached",
                               L(<<>>), strict_mode),
               has_config_drive |->
                   B(ToBool(Get(server, "config_drive", B(FALSE)))),
               host_id |-> Get(server, "hostId", None),
               progress |-> PopInt(server, "progress"),
               disk_config |-> PopOrGet(server, "OS-DCF:diskConfig",
                                        None, strict_mode),
               interface_ip |-> S(""),
               properties |-> M(ServerProperties(server))])

NormalizeServer(server) ==
    IF ~Has(server, "id") THEN Raised("KeyError: 'id'", server)
    ELSE IF ~Has(server, "name") THEN Raised("KeyError: 'name'", server)
    ELSE IF ~Has(server, "flavor") THEN Raised("KeyError: 'flavor'", server)
    ELSE IF ~IsMap(server["flavor"]) THEN Raised("AttributeError", server)
    ELSE IF ~Has(server, "image")
    THEN Raised("KeyError: 'image'", ServerAfterFlavor(server))
    ELSE IF ~IsMap(server["image"]) /\ ~IsStr(server["image"])
    THEN Raised("AttributeError", ServerAfterFlavor(server))
    ELSE IF PopIntFails(server, "progress")
    THEN Raised("ValueError", ServerAfterImage(server))
    ELSE Returned(ServerBackCompat(ServerRet(server),
                                   Get(server, "hostId", None),
                                   Get(server, "config_drive", B(FALSE)),
                                   ProjectIdOf(server), ServerAz(server)),
                  ServerAfterImage(server))

-----------------------------------------------------------------------------
(* _normalize_floating_ip *)

FipClaimed ==
    {"fixed_ip_address", "fixed_ip", "floating_ip_address", "ip",
     "floating_network_id", "network", "pool", "tenant_id", "project_id",
     "instance_id", "router_id", "id", "port_id"}

\* the ip dict left over at properties=ip.copy(): 'status' is popped only
\* when neutron serves floating IPs
FipProperties(ip) ==
    PopAll(ip, FipClaimed \cup (IF use_neutron THEN {"status"} ELSE {}))

FipAttached(ip) ==
    IF use_neutron
    THEN Truthy(Get(ip, "port_id", None))
    ELSE Truthy(Get(ip, "instance_id", None))

\* status read from the raw record whichever backend serves floating IPs
FipStatusFromRaw(ip) == Get(ip, "status", S("UNKNOWN"))

FipStatus(ip) ==
    IF use_neutron THEN Get(ip, "status", S("UNKNOWN")) ELSE S("ACTIVE")

\* "Backwards compat"; floating_network_id is assigned "network_id,"
FipBackCompat(ret, port_id, router_id, project_id, network_id) ==
    IF ~strict_mode
    THEN SetDefaults(
             Update(ret, [port_id |-> port_id,
                          router_id |-> router_id,
                          project_id |-> project_id,
                          tenant_id |-> project_id,
                          floating_network_id |-> T(<<network_id>>)]),
             ret["properties"][2])
    ELSE ret

FipNetworkId(ip) ==
    Get(ip, "floating_network_id", Get(ip, "network", Get(ip, "pool", None)))

\* ret as built by lines 419-430, before the backwards-compat block
FipRet(ip) ==
               [attached |-> B(FipAttached(ip)),
                fixed_ip_address |->
                    Get(ip, "fixed_ip_address", Get(ip, "fixed_ip", None)),
                floating_ip_address |->
                    Get(ip, "floating_ip_address", Get(ip, "ip", None)),
                id |-> ip["id"],
                location |-> GetCurrentLocation(ProjectIdOf(ip), None),
                network |-> FipNetworkId(ip),
                port |-> Get(ip, "port_id", None),
                router |-> Get(ip, "router_id", None),
                status |-> FipStatus(ip),
                properties |-> M(FipProperties(ip))]

NormalizeFloatingIp(ip) ==
    IF ~Has(ip, "id") THEN Raised("KeyError: 'id'", ip)
    ELSE Returned(FipBackCompat(FipRet(ip), Get(ip, "port_id", None),
                                Get(ip, "router_id", None), ProjectIdOf(ip),
                                FipNetworkId(ip)),
                  ip)

-----------------------------------------------------------------------------
(* shade/_utils.py: the range parser, the safe extremum finders, the range *)
(* filter and the list filter.  A string that the helpers read character   *)
(* by character is <<"chars", q>> with q the sequence of its characters.   *)

\* Bound: how many records a list handed to a helper holds at most.
MaxRecords == 3

\* Bound: how many characters a range string holds at most.
MaxRangeLen == 3

C(q) == <<"chars", q>>

IsChars(v) == Tag(v) = "chars"

Digits == {"0", "1", "2", "3", "4", "5", "6", "7", "8", "9"}

DigitVal(c) ==
    CASE c = "0" -> 0 [] c = "1" -> 1 [] c = "2" -> 2 [] c = "3" -> 3
      [] c = "4" -> 4 [] c = "5" -> 5 [] c = "6" -> 6 [] c = "7" -> 7
      [] c = "8" -> 8 [] c = "9" -> 9

\* q is a non-empty run of decimal digits
IsDigits(q) == Len(q) > 0 /\ \A i \in 1..Len(q) : q[i] \in Digits

RECURSIVE DigitsVal(_)
\* the integer a run of decimal digits denotes
DigitsVal(q) ==
    IF Len(q) = 0 THEN 0
    ELSE 10 * DigitsVal(SubSeq(q, 1, Len(q) - 1)) + DigitVal(q[Len(q)])

\* int(value) of a record's value succeeds
IntParses(v) ==
    \/ Tag(v) = "int"
    \/ IsChars(v) /\ IsDigits(v[2])

\* int(value), where it succeeds
ToInt(v) == IF Tag(v) = "int" THEN v[2] ELSE DigitsVal(v[2])

\* q starts with the characters p
StartsWith(q, p) == Len(q) >= Len(p) /\ SubSeq(q, 1, Len(p)) = p

\* the comparison prefixes, the longest first
RangeOps == << <<"<", "=">>, <<">", "=">>, <<"<">>, <<">">> >>

\* no range: the parser's answer to an absent, empty or unreadable string
NoRange == None

\* parse_range(value): None for no constraint or no parse, else the pair of
\* the comparison (None for a bare integer) and the integer
ParseRange(value) ==
    IF value = None \/ Len(value[2]) = 0 THEN NoRange
    ELSE LET q == value[2]
             hits == {i \in 1..Len(RangeOps) : StartsWith(q, RangeOps[i])}
         IN IF hits # {}
            THEN LET i == CHOOSE i \in hits : \A j \in hits : i <= j
                     rest == SubSeq(q, Len(RangeOps[i]) + 1, Len(q))
                 IN IF IsDigits(rest)
                    THEN T(<<C(RangeOps[i]), I(DigitsVal(rest))>>)
                    ELSE NoRange
            ELSE IF IsDigits(q)
                 THEN T(<<None, I(DigitsVal(q))>>)
                 ELSE NoRange

\* a helper's outcome: the message of the cloud exception raised (<<>> for
\* none) and the value returned
Failed(msg) == [done |-> TRUE, err |-> msg, ret |-> None]
Gave(v) == [done |-> TRUE, err |-> <<>>, ret |-> v]

\* the message of the exception an extremum search raises on value v
ExtremumError(what, key, v) ==
    <<"Search for ", what, " value failed. Value for ", key,
      " is not an integer: ", v>>

\* the record holds the key, whatever its value
ContributesWhenPresent(d, key) == Has(d, key)

\* the record takes part in an extremum search on key
Contributes(d, key) == Has(d, key) /\ d[key] # None

RECURSIVE SafeDictScan(_, _, _, _, _)
\* the scan of safe_dict_min (what = "minimum") and safe_dict_max
\* (what = "maximum") from record i on, best being the extremum so far
SafeDictScan(what, key, data, i, best) ==
    IF i > Len(data) THEN Gave(best)
    ELSE IF ~Contributes(data[i], key)
         THEN SafeDictScan(what, key, data, i + 1, best)
         ELSE IF ~IntParses(data[i][key])
              THEN Failed(ExtremumError(what, key, data[i][key]))
              ELSE LET val == ToInt(data[i][key])
                       better == \/ best = None
                                 \/ what = "minimum" /\ val < best[2]
                                 \/ what = "maximum" /\ val > best[2]
                   IN SafeDictScan(what, key, data, i + 1,
                                   IF better THEN I(val) ELSE best)

SafeDictMin(key, data) == SafeDictScan("minimum", key, data, 1, None)

SafeDictMax(key, data) == SafeDictScan("maximum", key, data, 1, None)

\* as Compares, with every strict comparison read as its non-strict one
ComparesOrEqual(op, x, n) ==
    CASE op = None -> x = n
      [] op \in {C(<<"<">>), C(<<"<", "=">>)} -> x <= n
      [] op \in {C(<<">">>), C(<<">", "=">>)} -> x >= n

\* the integer x stands in relation op to the integer n
Compares(op, x, n) ==
    CASE op = None -> x = n
      [] op = C(<<"<">>) -> x < n
      [] op = C(<<">">>) -> x > n
      [] op = C(<<"<", "=">>) -> x <= n
      [] op = C(<<">", "=">>) -> x >= n

RECURSIVE RangeKeep(_, _, _, _)
\* the records of data whose key, read as an integer, compares to n by op
RangeKeep(data, key, op, n) ==
    IF Len(data) = 0 THEN <<>>
    ELSE (IF Compares(op, ToInt(Head(data)[key]), n)
          THEN <<Head(data)>> ELSE <<>>)
         \o RangeKeep(Tail(data), key, op, n)

\* a message that names the range string without its first character
InvalidRangeTail(range) ==
    <<"Invalid range value: ">> \o SubSeq(range[2], 2, Len(range[2]))

\* the message of the exception an unreadable range string raises
InvalidRange(range) == <<"Invalid range value: ">> \o range[2]

\* what range_filter makes of the extremum search found: its failure, no
\* record when no record supplied the key, else the records equal to it
RangeExtremum(data, key, found) ==
    IF found.err # <<>> THEN found
    ELSE IF found.ret = None THEN Gave(<<>>)
    ELSE Gave(RangeKeep(data, key, None, found.ret[2]))

\* range_filter(data, key, range_exp)
RangeFilter(data, key, range) ==
    IF range = C(<<"m", "i", "n">>)
    THEN RangeExtremum(data, key, SafeDictMin(key, data))
    ELSE IF range = C(<<"m", "a", "x">>)
    THEN RangeExtremum(data, key, SafeDictMax(key, data))
    ELSE LET val_range == ParseRange(range)
         IN IF val_range = NoRange THEN Failed(InvalidRange(range))
            ELSE Gave(RangeKeep(data, key, val_range[2][1],
                                val_range[2][2][2]))

\* str.lower() on one character of the names of the model
LowerChar(c) ==
    CASE c = "D" -> "d" [] c = "O" -> "o" [] c = "G" -> "g" [] OTHER -> c

LowerChars(q) == [i \in 1..Len(q) |-> LowerChar(q[i])]

\* p occurs in q as a run of consecutive characters
Contains(q, p) ==
    \E i \in 0..(Len(q) - Len(p)) : SubSeq(q, i + 1, i + Len(p)) = p

\* the record answers to name_or_id: its id is name_or_id exactly, or its
\* name holds name_or_id whatever the case
NameOrIdMatches(e, name_or_id) ==
    \/ Has(e, "id") /\ e["id"] = name_or_id
    \/ /\ Has(e, "name")
       /\ IsChars(e["name"])
       /\ Contains(LowerChars(e["name"][2]), LowerChars(name_or_id[2]))

RECURSIVE DictFilter(_, _)
\* the record d answers to the filter mapping f: every key of f is in d
\* with an equal value, a mapping being compared key by key in its turn
DictFilter(f, d) ==
    \A k \in DOMAIN f :
        /\ Has(d, k)
        /\ IF IsMap(f[k])
           THEN IsMap(d[k]) /\ DictFilter(f[k][2], d[k][2])
           ELSE d[k] = f[k]

RECURSIVE KeepNamed(_, _)
\* the records of data that answer to name_or_id
KeepNamed(data, name_or_id) ==
    IF Len(data) = 0 THEN <<>>
    ELSE (IF NameOrIdMatches(Head(data), name_or_id)
          THEN <<Head(data)>> ELSE <<>>)
         \o KeepNamed(Tail(data), name_or_id)

\* every record, whatever the filter mapping
KeepAll(data, filters) == data

RECURSIVE KeepFiltered(_, _)
\* the records of data that answer to the filter mapping
KeepFiltered(data, filters) ==
    IF Len(data) = 0 THEN <<>>
    ELSE (IF DictFilter(filters[2], Head(data))
          THEN <<Head(data)>> ELSE <<>>)
         \o KeepFiltered(Tail(data), filters)

\* _filter_list(data, name_or_id, filters): the name first, the filter
\* mapping on what the name kept
FilterList(data, name_or_id, filters) ==
    LET named == IF name_or_id = None THEN data
                 ELSE KeepNamed(data, name_or_id)
    IN IF filters = None \/ DOMAIN filters[2] = {} THEN named
       ELSE KeepFiltered(named, filters)

\* no helper is called
NoCall == [fn |-> "none"]

\* the helper called has not answered yet
Pending == [done |-> FALSE, err |-> <<>>, ret |-> None]

-----------------------------------------------------------------------------
(* the raw records callers hand to the normalizers *)

\* base extended, for each <<key, values>> of opts, with the key absent or
\* bound to one of the values
RECURSIVE Gen(_, _)
Gen(base, opts) ==
    IF opts = <<>>
    THEN {base}
    ELSE LET rest == Gen(base, Tail(opts))
         IN rest \cup {Put(r, Head(opts)[1], v) : r \in rest, v \in Head(opts)[2]}

RawFlavors ==
    Gen([vcpus |-> I(2)],
        << <<"id", {S("f1")}>>,
           <<"name", {S("small")}>>,
           <<"links", {L(<<S("http://self")>>)}>>,
           <<"OS-FLV-EXT-DATA:ephemeral", {I(5)}>>,
           <<"os-flavor-access:is_public", {B(FALSE)}>>,
           <<"is_public", {S("True"), S("yes"), B(FALSE)}>>,
           <<"OS-FLV-DISABLED:disabled", {S("TRUE")}>>,
           <<"ram", {S("512")}>>,
           <<"vendor:ext", {S("x")}>> >>)

RawImages ==
    Gen([checksum |-> S("abc"), size |-> S("512")],
        << <<"id", {S("i1")}>>,
           <<"name", {S("cirros")}>>,
           <<"visibility", {S("public"), S("private")}>>,
           <<"is_public", {B(TRUE), B(FALSE), S("false")}>>,
           <<"protected", {S("TRUE")}>>,
           <<"properties", {M([arch |-> S("x86")]), M([status |-> S("bogus")])}>>,
           <<"owner", {S("p-owner")}>>,
           <<"location", {S("elsewhere")}>>,
           <<"vendor:ext", {S("x")}>> >>)

RawRules ==
    Gen(EmptyMap,
        << <<"id", {S("r1")}>>,
           <<"from_port", {I(-1), I(22), S("-1")}>>,
           <<"port_range_min", {I(-1), S("80")}>>,
           <<"to_port", {I(-1), S("80")}>>,
           <<"port_range_max", {I(-1), I(443)}>>,
           <<"ip_range", {M([cidr |-> S("0.0.0.0/0")])}>>,
           <<"tenant_id", {S("p-tenant")}>>,
           <<"vendor:ext", {S("x")}>> >>)

RawSecgroups ==
    Gen(EmptyMap,
        << <<"id", {S("g1")}>>,
           <<"name", {S("web")}>>,
           <<"description", {S("web servers")}>>,
           <<"tenant_id", {S("p-tenant")}>>,
           <<"project_id", {S("p-project")}>>,
           <<"rules", {L(<<M([id |-> S("r1"), from_port |-> I(-1)])>>),
                       L(<<M([from_port |-> I(22)])>>)}>>,
           <<"security_group_rules",
             {L(<<M([id |-> S("r2"), port_range_min |-> I(80)])>>)}>>,
           <<"vendor:ext", {S("x")}>> >>)

RawServers ==
    Gen([status |-> S("ACTIVE")],
        << <<"id", {S("s1")}>>,
           <<"name", {S("web-1")}>>,
           <<"flavor", {M([id |-> S("f1"), links |-> L(<<S("http://f")>>)])}>>,
           <<"image", {S("img-1"),
                       M([id |-> S("i1"), links |-> L(<<S("http://i")>>)])}>>,
           <<"tenant_id", {S("p-tenant")}>>,
           <<"OS-EXT-AZ:availability_zone", {S("az-raw")}>>,
           <<"config_drive", {S("True"), S("")}>>,
           <<"OS-EXT-STS:vm_state", {S("active")}>>,
           <<"vendor:ext", {S("x")}>> >>)

RawFloatingIps ==
    Gen(EmptyMap,
        << <<"id", {S("ip1")}>>,
           <<"port_id", {S("port-1"), None}>>,
           <<"instance_id", {S("s1"), S("")}>>,
           <<"status", {S("DOWN")}>>,
           <<"floating_network_id", {S("net-1")}>>,
           <<"network", {S("net-2")}>>,
           <<"fixed_ip", {S("10.0.0.5")}>>,
           <<"tenant_id", {S("p-tenant")}>>,
           <<"vendor:ext", {S("x")}>> >>)

Kinds == {"flavor", "image", "secgroup", "secgroup_rule", "server", "floating_ip"}

RawRecords(k) ==
    CASE k = "flavor" -> RawFlavors
      [] k = "image" -> RawImages
      [] k = "secgroup" -> RawSecgroups
      [] k = "secgroup_rule" -> RawRules
      [] k = "server" -> RawServers
      [] k = "floating_ip" -> RawFloatingIps

\* the normalizer of a resource kind
Normalize(k, r) ==
    CASE k = "flavor" -> NormalizeFlavor(r)
      [] k = "image" -> NormalizeImage(r)
      [] k = "secgroup" -> NormalizeSecgroup(r)
      [] k = "secgroup_rule" -> NormalizeSecgroupRule(r)
      [] k = "server" -> NormalizeServer(r)
      [] k = "floating_ip" -> NormalizeFloatingIp(r)

-----------------------------------------------------------------------------
(* the state machine: callers normalizing a record of the shared cache *)

Init ==
    /\ kind \in Kinds
    /\ strict_mode \in BOOLEAN
    /\ use_neutron \in BOOLEAN
    /\ orig \in RawRecords(kind)
    /\ raw = orig
    /\ outs = <<>>
    /\ who = "nobody"
    /\ utils_call = NoCall
    /\ utils_ret = Pending

\* what a call on record arg with result res adds to the log of calls
Outcome(arg, res) == [arg |-> arg, err |-> res.err, ret |-> res.ret]

\* a caller normalizes the shared record, a flavor
NormalizeFlavorCall ==
    \E c \in Callers :
        /\ kind = "flavor"
        /\ Len(outs) < MaxCalls
        /\ raw' = NormalizeFlavor(raw).raw
        /\ outs' = Append(outs, Outcome(raw, NormalizeFlavor(raw)))
        /\ who' = c
        /\ UNCHANGED <<kind, strict_mode, use_neutron, orig,
                       utils_call, utils_ret>>

\* a caller normalizes the shared record, an image
NormalizeImageCall ==
    \E c \in Callers :
        /\ kind = "image"
        /\ Len(outs) < MaxCalls
        /\ raw' = NormalizeImage(raw).raw
        /\ outs' = Append(outs, Outcome(raw, NormalizeImage(raw)))
        /\ who' = c
        /\ UNCHANGED <<kind, strict_mode, use_neutron, orig,
                       utils_call, utils_ret>>

\* a caller normalizes the shared record, a security group
NormalizeSecgroupCall ==
    \E c \in Callers :
        /\ kind = "secgroup"
        /\ Len(outs) < MaxCalls
        /\ raw' = NormalizeSecgroup(raw).raw
        /\ outs' = Append(outs, Outcome(raw, NormalizeSecgroup(raw)))
        /\ who' = c
        /\ UNCHANGED <<kind, strict_mode, use_neutron, orig,
                       utils_call, utils_ret>>

\* a caller normalizes the shared record, a security-group rule
NormalizeSecgroupRuleCall ==
    \E c \in Callers :
        /\ kind = "secgroup_rule"
        /\ Len(outs) < MaxCalls
        /\ raw' = NormalizeSecgroupRule(raw).raw
        /\ outs' = Append(outs, Outcome(raw, NormalizeSecgroupRule(raw)))
        /\ who' = c
        /\ UNCHANGED <<kind, strict_mode, use_neutron, orig,
                       utils_call, utils_ret>>

\* a caller normalizes the shared record, a server
NormalizeServerCall ==
    \E c \in Callers :
        /\ kind = "server"
        /\ Len(outs) < MaxCalls
        /\ raw' = NormalizeServer(raw).raw
        /\ outs' = Append(outs, Outcome(raw, NormalizeServer(raw)))
        /\ who' = c
        /\ UNCHANGED <<kind, strict_mode, use_neutron, orig,
                       utils_call, utils_ret>>

\* a caller normalizes the shared record, a floating IP
NormalizeFloatingIpCall ==
    \E c \in Callers :
        /\ kind = "floating_ip"
        /\ Len(outs) < MaxCalls
        /\ raw' = NormalizeFloatingIp(raw).raw
        /\ outs' = Append(outs, Outcome(raw, NormalizeFloatingIp(raw)))
        /\ who' = c
        /\ UNCHANGED <<kind, strict_mode, use_neutron, orig,
                       utils_call, utils_ret>>

Next ==
    \/ NormalizeFlavorCall
    \/ NormalizeImageCall
    \/ NormalizeSecgroupCall
    \/ NormalizeSecgroupRuleCall
    \/ NormalizeServerCall
    \/ NormalizeFloatingIpCall

Spec == Init /\ [][Next]_vars

\* the image normalizer alone, on the image records of the cache
InitImage == Init /\ kind = "image"

SpecImage == InitImage /\ [][NormalizeImageCall]_vars

\* the security-group-rule normalizer alone, on the rule records
InitRule == Init /\ kind = "secgroup_rule"

SpecRule == InitRule /\ [][NormalizeSecgroupRuleCall]_vars

-----------------------------------------------------------------------------
(* the helpers of _utils, each applied once to inputs drawn at the start *)

\* the sequences of at most n elements of V
SeqsUpTo(V, n) == UNION {[1..k -> V] : k \in 0..n}

\* in a generated record: the key is left out
Absent == <<"absent">>

\* record number i of a list, holding v under key unless v is Absent
Rec(i, key, v) ==
    IF v = Absent THEN [k \in {"id"} |-> I(i)]
    ELSE [k \in {"id", key} |-> IF k = "id" THEN I(i) ELSE v]

\* the lists of numbered records whose values under key are drawn from V
Lists(key, V) ==
    {[i \in DOMAIN q |-> Rec(i, key, q[i])] : q \in SeqsUpTo(V, MaxRecords)}

\* values met by the extremum finders: missing, None, zero, integers, a
\* decimal string and a string that is no integer
ExtremumValues == {Absent, None, I(0), I(1), I(3), C(<<"2">>), C(<<"a">>)}

\* values met by the range filter: integers and a decimal string
RangeValues == {I(1), C(<<"2">>), I(3)}

RangeChars == {"<", ">", "=", "2", "A"}

RangeStrings ==
    {C(q) : q \in SeqsUpTo(RangeChars, MaxRangeLen)}
        \cup {C(<<"m", "i", "n">>), C(<<"m", "a", "x">>)}

\* the records the list filter draws its lists from
Rich == M([category |-> S("clown"), financial |-> M([status |-> S("rich")])])
Poor == M([category |-> S("dog"), financial |-> M([status |-> S("poor")])])
Clown == M([category |-> S("clown")])

FilterRecords ==
    { [id |-> C(<<"1">>), name |-> C(<<"d", "o">>), other |-> S("duck")],
      [id |-> C(<<"2">>), name |-> C(<<"D", "o", "g">>), other |-> Rich],
      [id |-> C(<<"d", "o">>), name |-> C(<<"x">>), other |-> Clown],
      [id |-> C(<<"4">>), name |-> C(<<"d", "o">>), other |-> Poor] }

NameOrIds == {None, C(<<"d", "o">>), C(<<"2">>)}

Filters ==
    { None,
      M([other |-> S("duck")]),
      M([other |-> Clown]),
      M([other |-> M([financial |-> M([status |-> S("rich")])])]),
      M([size |-> I(1)]) }

UtilsCalls ==
    {[fn |-> "parse_range", value |-> v] : v \in RangeStrings \cup {None}}
    \cup {[fn |-> f, key |-> "f1", data |-> d] :
              f \in {"safe_dict_min", "safe_dict_max"},
              d \in Lists("f1", ExtremumValues)}
    \cup {[fn |-> "range_filter", data |-> d, key |-> "key1", range |-> r] :
              d \in Lists("key1", RangeValues), r \in RangeStrings}
    \cup {[fn |-> "filter_list", data |-> d, name_or_id |-> n,
           filters |-> f] :
              d \in SeqsUpTo(FilterRecords, MaxRecords),
              n \in NameOrIds, f \in Filters}

InitUtils ==
    /\ kind = "utils"
    /\ strict_mode = FALSE
    /\ use_neutron = FALSE
    /\ orig = EmptyMap
    /\ raw = EmptyMap
    /\ outs = <<>>
    /\ who = "nobody"
    /\ utils_call \in UtilsCalls
    /\ utils_ret = Pending

ParseRangeCall ==
    /\ utils_call.fn = "parse_range"
    /\ ~utils_ret.done
    /\ utils_ret' = Gave(ParseRange(utils_call.value))
    /\ UNCHANGED <<kind, strict_mode, use_neutron, orig, raw, outs, who,
                   utils_call>>

SafeDictMinCall ==
    /\ utils_call.fn = "safe_dict_min"
    /\ ~utils_ret.done
    /\ utils_ret' = SafeDictMin(utils_call.key, utils_call.data)
    /\ UNCHANGED <<kind, strict_mode, use_neutron, orig, raw, outs, who,
                   utils_call>>

SafeDictMaxCall ==
    /\ utils_call.fn = "safe_dict_max"
    /\ ~utils_ret.done
    /\ utils_ret' = SafeDictMax(utils_call.key, utils_call.data)
    /\ UNCHANGED <<kind, strict_mode, use_neutron, orig, raw, outs, who,
                   utils_call>>

RangeFilterCall ==
    /\ utils_call.fn = "range_filter"
    /\ ~utils_ret.done
    /\ utils_ret' = RangeFilter(utils_call.data, utils_call.key,
                                utils_call.range)
    /\ UNCHANGED <<kind, strict_mode, use_neutron, orig, raw, outs, who,
                   utils_call>>

FilterListCall ==
    /\ utils_call.fn = "filter_list"
    /\ ~utils_ret.done
    /\ utils_ret' = Gave(FilterList(utils_call.data, utils_call.name_or_id,
                                    utils_call.filters))
    /\ UNCHANGED <<kind, strict_mode, use_neutron, orig, raw, outs, who,
                   utils_call>>

NextUtils ==
    \/ ParseRangeCall
    \/ SafeDictMinCall
    \/ SafeDictMaxCall
    \/ RangeFilterCall
    \/ FilterListCall

SpecUtils == InitUtils /\ [][NextUtils]_vars

TypeOK ==
    /\ kind \in Kinds \cup {"utils"}
    /\ Len(outs) <= MaxCalls
    /\ \A i \in 1..Len(outs) : outs[i].err = "" \/ outs[i].ret = EmptyMap

-----------------------------------------------------------------------------
(* what the calls made so far have returned *)

Calls == 1..Len(outs)

\* call i returned a canonical record
Ok(i) == outs[i].err = ""

\* the result of normalizing a fresh, separate copy of the original record
Fresh == Normalize(kind, orig)

\* C1: after a normalizer call, in strict and in non-strict mode, the raw
\* record the caller passed has the same keys and the same values as before
\* the call, nested mappings included.
C1_RawRecordUnchanged ==
    Len(outs) > 0 => raw = outs[Len(outs)].arg

\* C2: every call of a sequence of calls on the same shared record returns
\* the same outcome, the one normalizing a fresh copy of the original raw
\* record gives.
C2_SharedRecordCallsAgree ==
    \A i \in Calls : outs[i].err = Fresh.err /\ outs[i].ret = Fresh.ret

-----------------------------------------------------------------------------
(* the canonical schema of each resource kind *)

FlavorFields ==
    {"location", "id", "name", "is_public", "is_disabled", "ram", "vcpus",
     "disk", "ephemeral", "swap", "rxtx_factor", "extra_specs"}

ImageFields ==
    IMAGE_FIELDS \cup {"location", "is_protected", "locations", "visibility",
                       "is_public"}

GroupFields == {"location", "id", "name", "security_group_rules", "description"}

RuleFields ==
    {"id", "direction", "ethertype", "port_range_min", "port_range_max",
     "protocol", "remote_ip_prefix", "security_group_id", "remote_group_id",
     "location"}

ServerFields ==
    SERVER_FIELDS \cup ServerShortKeys
        \cup {"id", "name", "flavor", "image", "location", "volumes",
              "has_config_drive", "host_id", "progress", "disk_config",
              "interface_ip"}

FipFields ==
    {"attached", "fixed_ip_address", "floating_ip_address", "id", "location",
     "network", "port", "router", "status"}

CanonicalFields(k) ==
    CASE k = "flavor" -> FlavorFields
      [] k = "image" -> ImageFields
      [] k = "secgroup" -> GroupFields
      [] k = "secgroup_rule" -> RuleFields
      [] k = "server" -> ServerFields
      [] k = "floating_ip" -> FipFields

\* the raw keys a normalizer reads a canonical field from, under either
\* spelling, and the noise keys it strips
SourceKeys(k) ==
    CASE k = "flavor" ->
            Noise \cup {"OS-FLV-EXT-DATA:ephemeral", "ephemeral",
                        "os-flavor-access:is_public", "is_public",
                        "OS-FLV-DISABLED:disabled", "extra_specs", "id",
                        "name", "ram", "vcpus", "disk", "swap", "rxtx_factor"}
      [] k = "image" ->
            IMAGE_FIELDS \cup {"properties", "visibility", "protected",
                               "is_public", "locations"}
      [] k = "secgroup" ->
            {"security_group_rules", "rules", "tenant_id", "project_id", "id",
             "name", "description"}
      [] k = "secgroup_rule" -> RuleClaimed \cup {"port_range_min"}
      [] k = "server" ->
            Noise \cup SERVER_FIELDS \cup ServerExtKeys
                \cup {"id", "name", "flavor", "image", "tenant_id",
                      "project_id", "OS-EXT-AZ:availability_zone",
                      "os-extended-volumes:volumes_attached", "config_drive",
                      "hostId", "progress", "OS-DCF:diskConfig"}
      [] k = "floating_ip" -> FipClaimed \cup {"status"}

\* the record a normalizer has built when it reaches its backwards-compat block
Canonical(k, r) ==
    CASE k = "flavor" -> NewFlavor(r)
      [] k = "image" -> NewImage(r)
      [] k = "secgroup" -> GroupRet(r)
      [] k = "secgroup_rule" -> RuleRet(r)
      [] k = "server" -> ServerRet(r)
      [] k = "floating_ip" -> FipRet(r)

\* C3: in non-strict mode every raw field that is not a source of a
\* canonical field is in the output's 'properties' and at its top level with
\* its raw value, and every canonical field keeps its normalized value (no
\* entry of 'properties' overwrites it).
C3_NonStrictPassthrough ==
    ~strict_mode =>
        \A i \in Calls : Ok(i) =>
            LET a == outs[i].arg
                r == outs[i].ret
                canon == Canonical(kind, a)
            IN /\ \A k \in DOMAIN a \ (SourceKeys(kind) \cup CanonicalFields(kind)) :
                      /\ Has(r["properties"][2], k)
                      /\ r["properties"][2][k] = a[k]
                      /\ Has(r, k)
                      /\ r[k] = a[k]
               /\ \A c \in DOMAIN canon : Has(r, c) /\ r[c] = canon[c]

\* C4: in strict mode the top-level keys of every output are exactly the
\* canonical fields of the resource kind plus 'properties': no entry of
\* 'properties' and no legacy alias is added.
C4_StrictKeysAreCanonical ==
    strict_mode =>
        \A i \in Calls : Ok(i) =>
            DOMAIN outs[i].ret = CanonicalFields(kind) \cup {"properties"}

\* a strict-mode call has returned a server built from a raw record that
\* carries a vendor extension, a legacy tenant_id and a config_drive
C4_Witness ==
    /\ strict_mode
    /\ kind = "server"
    /\ Len(outs) > 0
    /\ Ok(1)
    /\ {"vendor:ext", "tenant_id", "config_drive", "OS-EXT-STS:vm_state"}
           \subseteq DOMAIN outs[1].arg

\* the identity fields a raw record of a kind must carry
Mandatory(k) ==
    IF k \in {"flavor", "image", "server", "secgroup"}
    THEN {"id", "name"}
    ELSE {"id"}

KeyError(f) == IF f = "id" THEN "KeyError: 'id'" ELSE "KeyError: 'name'"

\* the identity fields missing from a raw record, or from a rule nested in it
MissingIdentity(k, a) ==
    (Mandatory(k) \ DOMAIN a)
        \cup (IF k = "secgroup"
                 /\ \E j \in 1..Len(GroupRawRules(a)) :
                        ~Has(GroupRawRules(a)[j][2], "id")
              THEN {"id"}
              ELSE {})

\* C5: a raw record that lacks a mandatory identity field makes the
\* normalizer fail with a KeyError naming a missing field and return no
\* record; no returned record has an 'id' or 'name' defaulted to None.
C5_MissingIdentityRaises ==
    \A i \in Calls :
        LET a == outs[i].arg
            missing == MissingIdentity(kind, a)
        IN /\ missing # {} =>
                  /\ outs[i].err \in {KeyError(f) : f \in missing}
                  /\ outs[i].ret = EmptyMap
           /\ Ok(i) =>
                  \A f \in Mandatory(kind) :
                      Has(outs[i].ret, f) /\ outs[i].ret[f] # None

\* the boolean the stated rule derives from the raw value under key k:
\* absent or empty gives false, a non-empty string is true only if it is
\* 'true' ignoring case, any other truthy value gives true
BoolRule(a, k) ==
    IF ~Has(a, k) THEN FALSE
    ELSE IF IsStr(a[k]) THEN a[k][2] # "" /\ Lower(a[k][2]) = "true"
    ELSE Truthy(a[k])

\* the boolean canonical fields of a kind, each with the raw key it is read
\* from (the first present of the keys listed)
BoolFieldsOf(k) ==
    CASE k = "flavor" ->
            {<<"is_public", <<"is_public", "os-flavor-access:is_public">>>>,
             <<"is_disabled", <<"OS-FLV-DISABLED:disabled">>>>}
      [] k = "image" ->
            {<<"is_protected", <<"protected">>>>,
             <<"is_public", <<"is_public">>>>}
      [] k = "server" -> {<<"has_config_drive", <<"config_drive">>>>}
      [] k = "floating_ip" ->
            {<<"attached",
               IF use_neutron THEN <<"port_id">> ELSE <<"instance_id">>>>}
      [] OTHER -> {}

\* the first key of keys that the raw record carries, else the first key
FirstPresent(a, keys) ==
    IF \E j \in 1..Len(keys) : Has(a, keys[j])
    THEN keys[CHOOSE j \in 1..Len(keys) :
                 Has(a, keys[j]) /\ \A h \in 1..(j - 1) : ~Has(a, keys[h])]
    ELSE keys[1]

\* C6: every boolean canonical field is a genuine boolean, the one the rule
\* derives from the raw value (an image's is_public being read from the raw
\* is_public when the raw record has no visibility).
C6_BooleansFollowRule ==
    \A i \in Calls : Ok(i) =>
        LET a == outs[i].arg
            r == outs[i].ret
        IN \A bf \in BoolFieldsOf(kind) :
               (kind = "image" /\ bf[1] = "is_public" /\ Has(a, "visibility"))
               \/ r[bf[1]] = B(BoolRule(a, FirstPresent(a, bf[2])))

\* C7: an image's visibility is the raw visibility when present, else
\* 'public' when the legacy raw is_public is true and 'private' when not;
\* and its is_public is true exactly when its visibility is 'public', also
\* when the raw record carries both.
C7_ImageVisibility ==
    kind = "image" =>
        \A i \in Calls : Ok(i) =>
            LET a == outs[i].arg
                r == outs[i].ret
            IN /\ Has(a, "visibility") => r["visibility"] = a["visibility"]
               /\ ~Has(a, "visibility") =>
                      r["visibility"] =
                          (IF Truthy(Get(a, "is_public", B(FALSE)))
                           THEN S("public") ELSE S("private"))
               /\ Truthy(r["is_public"]) <=> (r["visibility"] = S("public"))

\* the project identifier a raw record of a kind supplies
RawProject(k, a) ==
    CASE k = "image" -> Get(a, "owner", None)
      [] k = "flavor" -> None
      [] OTHER -> Get(a, "project_id", Get(a, "tenant_id", None))

\* C8: every output has a 'location' resolved from the ambient context: its
\* zone, region and cloud are those of the context whatever the raw record
\* holds, and only its project may come from the raw record.
C8_LocationFromContext ==
    \A i \in Calls : Ok(i) =>
        LET a == outs[i].arg
            r == outs[i].ret
        IN /\ Has(r, "location")
           /\ IsMap(r["location"])
           /\ r["location"] = GetCurrentLocation(RawProject(kind, a),
                                                 CurrentLocation[2]["zone"])

\* the raw fields that are neither promoted to a canonical field nor noise
Unclaimed(k, a) == [x \in DOMAIN a \ SourceKeys(k) |-> a[x]]

\* C9: 'properties' is exactly the raw fields that were neither promoted to
\* a canonical field nor stripped, each with its raw value (for an image,
\* together with the entries of the raw 'properties').
C9_PropertiesAreTheUnclaimed ==
    \A i \in Calls : Ok(i) =>
        LET a == outs[i].arg
            r == outs[i].ret
        IN r["properties"] =
               M(IF kind = "image"
                 THEN SetDefaults(Get(a, "properties", M(EmptyMap))[2],
                                  Unclaimed(kind, a))
                 ELSE Unclaimed(kind, a))

\* C10: the rule normalizer never outputs -1 as a port bound: a raw bound of
\* -1 under either service's name yields None, and of two names for one
\* bound the port_range_min / port_range_max one is used.
C10_NoMinusOnePort ==
    kind = "secgroup_rule" =>
        \A i \in Calls : Ok(i) =>
            LET a == outs[i].arg
                r == outs[i].ret
                lo == Get(a, "port_range_min", Get(a, "from_port", None))
                hi == Get(a, "port_range_max", Get(a, "to_port", None))
            IN /\ ~EqInt(r["port_range_min"], -1)
               /\ ~EqInt(r["port_range_max"], -1)
               /\ EqInt(lo, -1) => r["port_range_min"] = None
               /\ EqInt(hi, -1) => r["port_range_max"] = None
               /\ (Has(a, "port_range_min") /\ ~EqInt(lo, -1)) =>
                      IntOf(r["port_range_min"]) = IntOf(a["port_range_min"])
               /\ (Has(a, "port_range_max") /\ ~EqInt(hi, -1)) =>
                      IntOf(r["port_range_max"]) = IntOf(a["port_range_max"])

\* C11: under the neutron backend a floating IP is attached exactly when the
\* raw port_id is present and non-empty and its status is the raw status;
\* under the nova backend it is attached exactly when the raw instance_id is
\* present and non-empty and its status is 'ACTIVE' whatever the raw status,
\* in strict and in non-strict mode.
C11_FloatingIpAttachedStatus ==
    kind = "floating_ip" =>
        \A i \in Calls : Ok(i) =>
            LET a == outs[i].arg
                r == outs[i].ret
            IN IF use_neutron
               THEN /\ r["attached"] =
                          B(Has(a, "port_id") /\ Truthy(a["port_id"]))
                    /\ Has(a, "status") => r["status"] = a["status"]
               ELSE /\ r["attached"] =
                          B(Has(a, "instance_id") /\ Truthy(a["instance_id"]))
                    /\ r["status"] = S("ACTIVE")

\* a non-strict call under the nova backend has returned a floating IP whose
\* raw record carries a status, a port_id and no instance_id
C11_Witness ==
    /\ kind = "floating_ip"
    /\ ~use_neutron
    /\ ~strict_mode
    /\ Len(outs) > 0
    /\ Ok(1)
    /\ {"status", "port_id"} \subseteq DOMAIN outs[1].arg
    /\ ~Has(outs[1].arg, "instance_id")
    /\ outs[1].ret["status"] = S("ACTIVE")

\* C16: in a rule's output port_range_min and port_range_max are each None
\* or an integer: an upper bound given as a numeric string is coerced to an
\* integer as a lower bound is.
C16_PortBoundsAreIntegers ==
    kind = "secgroup_rule" =>
        \A i \in Calls : Ok(i) =>
            /\ outs[i].ret["port_range_min"] = None
                   \/ IsInt(outs[i].ret["port_range_min"])
            /\ outs[i].ret["port_range_max"] = None
                   \/ IsInt(outs[i].ret["port_range_max"])

-----------------------------------------------------------------------------
(* what the helpers of _utils have answered *)

\* the helper fn has been called and has answered
Answered(fn) == utils_call.fn = fn /\ utils_ret.done

\* an extremum finder has answered
ExtremumAnswered == Answered("safe_dict_min") \/ Answered("safe_dict_max")

\* the least and the greatest of a non-empty set of integers
MinOf(X) == CHOOSE x \in X : \A y \in X : x <= y
MaxOf(X) == CHOOSE x \in X : \A y \in X : x >= y

\* the extremum the call asked for, of a non-empty set of integers
ExtremumOf(X) ==
    IF utils_call.fn = "safe_dict_min" THEN MinOf(X) ELSE MaxOf(X)

\* the values 0, None and '' of the claim
IsEmptyLike(v) == v \in {I(0), None, C(<<>>)}

\* the records of the call that hold the key
Holders == {i \in DOMAIN utils_call.data :
               Has(utils_call.data[i], utils_call.key)}

ValueAt(i) == utils_call.data[i][utils_call.key]

\* C12 as stated: a record holding the key with an empty or false-like
\* value (0, None, '') contributes 0, a record without the key is ignored,
\* and safe_dict_min / safe_dict_max return the minimum / maximum of the
\* contributed integers.
C12_EmptyLikeContributesZero ==
    ExtremumAnswered /\ (\A i \in Holders : IsEmptyLike(ValueAt(i))
                                              \/ IntParses(ValueAt(i))) =>
        LET X == {IF IsEmptyLike(ValueAt(i)) THEN 0 ELSE ToInt(ValueAt(i)) :
                     i \in Holders}
        IN /\ utils_ret.err = <<>>
           /\ IF X = {} THEN utils_ret.ret = None
              ELSE utils_ret.ret = I(ExtremumOf(X))

\* the records that hold the key with a value other than None
Suppliers == {i \in Holders : ValueAt(i) # None}

\* C12 amended: a record holding the key with the value 0 contributes 0, a
\* record without the key or holding None under it is ignored, and
\* safe_dict_min / safe_dict_max return the minimum / maximum of the
\* contributed integers, None when no record contributes.
C12_NoneIsIgnored ==
    ExtremumAnswered /\ (\A i \in Suppliers : IntParses(ValueAt(i))) =>
        LET X == {ToInt(ValueAt(i)) : i \in Suppliers}
        IN /\ utils_ret.err = <<>>
           /\ IF X = {} THEN utils_ret.ret = None
              ELSE utils_ret.ret = I(ExtremumOf(X))

\* safe_dict_min has answered 1 on a list with a record holding None under
\* the key, a record without the key and a record holding 1
C12_Witness ==
    /\ Answered("safe_dict_min")
    /\ utils_ret.err = <<>>
    /\ utils_ret.ret = I(1)
    /\ \E i \in Holders : ValueAt(i) = None
    /\ \E i \in DOMAIN utils_call.data : i \notin Holders
    /\ \E i \in Holders : ValueAt(i) = I(1)

\* the range string of the call, as its characters
RangeText == utils_call.range[2]

\* the comparison a prefix of characters writes: none, <, >, <= or >=
Holds(op, x, n) ==
    CASE op = <<>> -> x = n
      [] op = <<"<">> -> x < n
      [] op = <<">">> -> x > n
      [] op = <<"<", "=">> -> x <= n
      [] op = <<">", "=">> -> x >= n

\* the places where the range string splits into a comparison, possibly
\* none, followed by an integer
Splits ==
    {k \in 0..Len(RangeText) :
        /\ SubSeq(RangeText, 1, k)
               \in {<<>>, <<"<">>, <<">">>, <<"<", "=">>, <<">", "=">>}
        /\ IsDigits(SubSeq(RangeText, k + 1, Len(RangeText)))}

\* the key of record d of the call, as an integer
KeyOf(d) == ToInt(d[utils_call.key])

KeysOfCall == {KeyOf(utils_call.data[i]) : i \in DOMAIN utils_call.data}

IsLeast(d) == KeyOf(d) = MinOf(KeysOfCall)
IsGreatest(d) == KeyOf(d) = MaxOf(KeysOfCall)

\* C13: range_filter returns, in their original order, exactly the records
\* whose key satisfies the range: for 'min' / 'max' every record whose key
\* equals the minimum / maximum, ties included; for a comparison followed by
\* an integer the records that compare so; for a bare integer the records
\* equal to it.
C13_RangeFilterSelects ==
    Answered("range_filter") =>
        /\ RangeText = <<"m", "i", "n">> =>
               /\ utils_ret.err = <<>>
               /\ utils_ret.ret = SelectSeq(utils_call.data, IsLeast)
        /\ RangeText = <<"m", "a", "x">> =>
               /\ utils_ret.err = <<>>
               /\ utils_ret.ret = SelectSeq(utils_call.data, IsGreatest)
        /\ \A k \in Splits :
               LET op == SubSeq(RangeText, 1, k)
                   n == DigitsVal(SubSeq(RangeText, k + 1, Len(RangeText)))
                   Wanted(d) == Holds(op, KeyOf(d), n)
               IN /\ utils_ret.err = <<>>
                  /\ utils_ret.ret = SelectSeq(utils_call.data, Wanted)

\* range_filter has answered '<2' on three records with the first and the
\* last of them, the middle one being dropped
C13_Witness ==
    /\ Answered("range_filter")
    /\ RangeText = <<"<", "2">>
    /\ Len(utils_call.data) = 3
    /\ utils_ret.err = <<>>
    /\ utils_ret.ret = <<utils_call.data[1], utils_call.data[3]>>

\* C14: range_filter, given a range string that is not 'min', not 'max' and
\* not an optional comparison followed by an integer, raises the cloud
\* exception 'Invalid range value: ' followed by the string as given, and
\* returns no list.
C14_InvalidRangeRaises ==
    Answered("range_filter")
        /\ RangeText \notin {<<"m", "i", "n">>, <<"m", "a", "x">>}
        /\ Splits = {} =>
        /\ utils_ret.err = <<"Invalid range value: ">> \o RangeText
        /\ utils_ret.ret = None

\* range_filter has raised on a comparison followed by digits and a letter
C14_Witness ==
    /\ Answered("range_filter")
    /\ RangeText = <<"<", "2", "A">>
    /\ Len(utils_call.data) > 0
    /\ utils_ret.err = <<"Invalid range value: ", "<", "2", "A">>

\* the record answers to both constraints of the call, an absent one
\* being no constraint
Selected(e) ==
    /\ utils_call.name_or_id = None
           \/ NameOrIdMatches(e, utils_call.name_or_id)
    /\ utils_call.filters = None
           \/ DictFilter(utils_call.filters[2], e)

\* C15: filter_list returns, in their original order, exactly the records
\* that satisfy name_or_id and the filter mapping together, so a record
\* that answers to name_or_id is left out when it fails the mapping; with
\* neither constraint the input comes back unchanged.
C15_FilterListSelectsBoth ==
    Answered("filter_list") =>
        /\ utils_ret.err = <<>>
        /\ utils_ret.ret = SelectSeq(utils_call.data, Selected)
        /\ utils_call.name_or_id = None /\ utils_call.filters = None =>
               utils_ret.ret = utils_call.data

\* filter_list has answered with one record of three that all answer to
\* name_or_id, the others failing the filter mapping, one of them for a
\* sub-key it lacks
C15_Witness ==
    /\ Answered("filter_list")
    /\ utils_call.name_or_id = C(<<"d", "o">>)
    /\ utils_call.filters =
           M([other |-> M([financial |-> M([status |-> S("rich")])])])
    /\ Len(utils_call.data) = 3
    /\ \A i \in 1..3 : NameOrIdMatches(utils_call.data[i], C(<<"d", "o">>))
    /\ \E i \in 1..3 : utils_call.data[i]["other"] = Clown
    /\ Len(utils_ret.ret) = 1
    /\ utils_ret.ret[1]["other"] = Rich

====
